---- MODULE Spec2Model ----
(***************************************************************************)
(* Model of the long-term memory subsystem                                 *)
(* (backend/app/services/memory_service.py, embedding_service.py).         *)
(*                                                                         *)
(* Scores (importance, confidence, relevance_score, similarity) are kept   *)
(* in hundredths: 1.0 is 100, 0.1 is 10, 0.01 is 1.  Time is in days.      *)
(* Text is a sequence of words.  The document store is the function        *)
(* `store` from ObjectIds (allocated in increasing order) to documents.    *)
(***************************************************************************)
EXTENDS Integers, Sequences, FiniteSets, TLC

VARIABLES
    store,      \* user_memories collection: id -> document
    legacy,     \* per user: number of further stored documents (see LegacyDoc)
    nextId,     \* next ObjectId the store hands out
    now,        \* datetime.utcnow(), in days
    steps,      \* number of requests / clock advances so far
    last,       \* the last request and what it returned
    g,          \* get_memory_graph traversal state (local variables of the call)
    call        \* a call in flight between two of its database operations

vars == <<store, legacy, nextId, now, steps, last, g, call>>

-----------------------------------------------------------------------------
(* Bounds of the model *)

MaxSteps == 3       \* requests per run
MaxBatch == 2       \* candidates per extraction batch / rows per import
MaxDepth == 2       \* largest max_depth passed to get_memory_graph

(* Program constants *)

HardLimit == 2000   \* create_memory: memory_count >= 2000 raises
DecayDays == 30     \* decay_memories: cutoff_date
DedupDays == 7      \* _is_duplicate_memory: cutoff_date
DefaultDecayRate == 1   \* decay_memories: decay_rate = 0.01

Users == {"u1", "u2"}
None == "None"      \* an absent string
Never == -1         \* an absent datetime (Optional[datetime] = None)
NoId == 0           \* an absent ObjectId; also an id the store never handed out

Min(a, b) == IF a <= b THEN a ELSE b
Max(a, b) == IF a >= b THEN a ELSE b

-----------------------------------------------------------------------------
(* Text and embeddings *)

CPy == <<"prefers", "python">>
CRust == <<"likes", "rust">>
CGo == <<"prefers", "go">>
CPrefers == <<"Prefers", "Python", "for", "backend">>
CDislikes == <<"Dislikes", "Python", "for", "backend">>
\* texts that hold the characters backslash-b themselves
CEscPrefers == <<"\\bprefers\\b", "Python">>
CEscDislikes == <<"\\bdislikes\\b", "Python", "\\bcurrently\\b">>

\* The encoder is an external model; here each topic word has a fixed
\* direction and a text is embedded in the direction of its first topic word.
\* A text that opens with a dislike lies 0.80 away from the same text opening
\* with a preference.
WordVec(w) ==
    CASE w = "python" -> <<5, 0>>
      [] w = "Python" -> <<5, 0>>
      [] w = "Dislikes" -> <<3, 4>>
      [] w = "\\bdislikes\\b" -> <<3, 4>>
      [] w = "go"     -> <<4, 3>>
      [] w = "rust"   -> <<0, 5>>
      [] OTHER        -> <<0, 0>>

RECURSIVE FirstTopic(_)
FirstTopic(text) ==
    IF text = <<>> THEN <<3, 4>>
    ELSE IF WordVec(Head(text)) # <<0, 0>> THEN WordVec(Head(text))
    ELSE FirstTopic(Tail(text))

\* generate_embedding(text): raises on empty text (validate=True), else the vector
CanEmbed(text) == text # <<>>
generate_embedding(text) == FirstTopic(text)

Dot(a, b) == a[1] * b[1] + a[2] * b[2]
ISqrt(n) == CHOOSE r \in 0..n : r * r <= n /\ (r + 1) * (r + 1) > n
Norm(a) == ISqrt(Dot(a, a))

\* cosine_similarity: 0 for a missing or zero vector, else (cos + 1) / 2
cosine_similarity(a, b) ==
    IF a = <<>> \/ b = <<>> THEN 0
    ELSE IF Norm(a) = 0 \/ Norm(b) = 0 THEN 0
    ELSE ((Dot(a, b) * 100) \div (Norm(a) * Norm(b)) + 100) \div 2

-----------------------------------------------------------------------------
(* Documents *)

\* UserMemoryDocument with its field defaults
UserMemoryDocument(u, text, emb, imp, conf, st, method, t) ==
    [ user_id |-> u, content |-> text, embedding |-> emb,
      importance |-> imp, confidence |-> conf, status |-> st,
      verified_at |-> Never, verification_history |-> <<>>,
      extraction_method |-> method,
      access_count |-> 0, last_accessed |-> Never,
      relevance_score |-> 100,
      relationships |-> <<>>, superseded_by |-> NoId,
      expiration_type |-> "permanent", expires_at |-> Never,
      conflict_detected |-> FALSE, conflict_ids |-> <<>>,
      last_conflict_check |-> Never,
      created_at |-> t, updated_at |-> t ]

\* Field(ge=0.0, le=1.0) on importance and confidence
ValidScores(imp, conf) == imp >= 0 /\ imp <= 100 /\ conf >= 0 /\ conf <= 100

\* The documents counted in `legacy` are rejected documents without an
\* embedding whose text no request of the model mentions and whose ids no
\* request names: no query but count_documents and a bulk delete by filter
\* matches them.
LegacyDoc(u) ==
    [UserMemoryDocument(u, <<"legacy">>, <<>>, 100, 0, "rejected", "manual", 0)
       EXCEPT !.relevance_score = 0]

Stored == DOMAIN store
OwnedIn(st, u) == {i \in DOMAIN st : st[i].user_id = u}
OwnedBy(u) == OwnedIn(store, u)

\* count_documents({"user_id": user_id})
count_documents(u) == Cardinality(OwnedBy(u)) + legacy[u]

Found_AnyOwner(u, id) == id \in Stored
\* find_one({"_id": id, "user_id": user_id})
Found(u, id) == id \in Stored /\ store[id].user_id = u

\* ids a client can send: every id ever handed out, and one that never was
IdInputs == NoId..(nextId - 1)

RECURSIVE SeqOfSet(_)
\* cursor order of a find(): ascending _id
SeqOfSet(S) ==
    IF S = {} THEN <<>>
    ELSE LET m == CHOOSE x \in S : \A y \in S : x <= y
         IN <<m>> \o SeqOfSet(S \ {m})

Range(s) == {s[i] : i \in 1..Len(s)}

RECURSIVE InsertDesc(_, _)
InsertDesc(sorted, x) ==
    IF sorted = <<>> THEN <<x>>
    ELSE IF Head(sorted).score >= x.score
         THEN <<Head(sorted)>> \o InsertDesc(Tail(sorted), x)
         ELSE <<x>> \o sorted

RECURSIVE SortDesc(_)
\* list.sort(key=score, reverse=True): stable, equal scores keep their order
SortDesc(s) ==
    IF s = <<>> THEN <<>>
    ELSE InsertDesc(SortDesc(SubSeq(s, 1, Len(s) - 1)), s[Len(s)])

\* s[:n], a negative n counting from the end
Take(s, n) ==
    IF n >= 0 THEN SubSeq(s, 1, Min(n, Len(s)))
    ELSE SubSeq(s, 1, Max(0, Len(s) + n))

\* what a request was and what it returned
Req(op, u) ==
    [op |-> op, user |-> u, id |-> NoId, ids |-> {}, act |-> None, text |-> <<>>,
     ok |-> TRUE, err |-> None, out |-> <<>>, batch |-> <<>>, flag |-> FALSE,
     limit |-> 0]

GIdle == [pc |-> "idle", user |-> None, root |-> NoId, max_depth |-> 0,
          queue |-> <<>>, visited |-> {}, nodes |-> <<>>, edges |-> <<>>]

\* no call in flight.  `read` holds the document a call has read, `stamp`
\* the instant the call began.
CIdle == [pc |-> "idle", op |-> None, user |-> None, id |-> NoId, target |-> NoId,
          act |-> None, text |-> <<>>, flag |-> FALSE, read |-> <<>>, stamp |-> 0]

-----------------------------------------------------------------------------
Init ==
    /\ store = <<>>
    /\ legacy \in {[u \in Users |-> IF u = "u1" THEN n ELSE 0] : n \in {0, HardLimit - 1}}
    /\ nextId = 1
    /\ now = 0
    /\ steps = 0
    /\ last = Req("init", None)
    /\ g = GIdle
    /\ call = CIdle

Tick ==
    /\ steps < MaxSteps
    /\ \E d \in {DedupDays + 1, DecayDays + 1} : now' = now + d
    /\ steps' = steps + 1
    /\ last' = Req("tick", None)
    /\ UNCHANGED <<store, legacy, nextId, g, call>>

-----------------------------------------------------------------------------
(* create / get / update / delete *)

AtHardLimit_Above(memory_count) == memory_count > HardLimit
\* create_memory: the hard limit test on the user's document count
AtHardLimit(memory_count) == memory_count >= HardLimit

\* create_memory: past the limit check the constructor call reads the names
\* mem_data, time_context and session_id, none of which the function binds,
\* so the call raises NameError before insert_one is reached.
CreateMemory(u, text, skip_limit_check) ==
    /\ steps < MaxSteps
    /\ last' = [Req("create_memory", u) EXCEPT
                 !.text = text, !.ok = FALSE,
                 !.act = IF skip_limit_check THEN "skip_limit_check" ELSE None,
                 !.err = IF ~skip_limit_check /\ AtHardLimit(count_documents(u))
                         THEN "ValueError: Memory limit exceeded (2000)"
                         ELSE IF ~CanEmbed(text)
                         THEN "ValueError: Cannot generate embedding for empty text"
                         ELSE "NameError: mem_data"]
    /\ steps' = steps + 1
    /\ UNCHANGED <<store, legacy, nextId, now, g, call>>

\* the access tracking update of get_memory and get_relevant_memories
Touch(st, id) ==
    [st EXCEPT ![id].access_count = @ + 1, ![id].last_accessed = now]

GetMemory(u, id) ==
    /\ steps < MaxSteps
    /\ IF Found(u, id)
       THEN /\ store' = Touch(store, id)
            /\ last' = [Req("get_memory", u) EXCEPT !.id = id, !.out = <<id>>]
       ELSE /\ store' = store
            /\ last' = [Req("get_memory", u) EXCEPT !.id = id, !.ok = FALSE]
    /\ steps' = steps + 1
    /\ UNCHANGED <<legacy, nextId, now, g, call>>

\* MemoryUpdateRequest: which fields are set, and their values
UpdateRequests ==
    { [set_content |-> TRUE,  content |-> CGo,  set_importance |-> FALSE, importance |-> 0],
      [set_content |-> FALSE, content |-> <<>>, set_importance |-> TRUE,  importance |-> 30] }

\* update_memory: the $set document applied to the matched record
UpdateData(mem, req) ==
    [mem EXCEPT
       !.updated_at = now,
       !.content = IF req.set_content THEN req.content ELSE @,
       !.embedding = IF req.set_content THEN generate_embedding(req.content) ELSE @,
       !.importance = IF req.set_importance THEN req.importance ELSE @]

UpdateMemory(u, id, req) ==
    /\ steps < MaxSteps
    /\ IF (req.set_content /\ ~CanEmbed(req.content)) \/ ~Found(u, id)
       THEN /\ store' = store
            /\ last' = [Req("update_memory", u) EXCEPT !.id = id, !.ok = FALSE]
       ELSE /\ store' = [store EXCEPT ![id] = UpdateData(@, req)]
            /\ last' = [Req("update_memory", u) EXCEPT !.id = id, !.text = req.content]
    /\ steps' = steps + 1
    /\ UNCHANGED <<legacy, nextId, now, g, call>>

Remove(st, ids) == [i \in (DOMAIN st) \ ids |-> st[i]]

DeleteMemory(u, id) ==
    /\ steps < MaxSteps
    /\ IF Found(u, id)
       THEN /\ store' = Remove(store, {id})
            /\ last' = [Req("delete_memory", u) EXCEPT !.id = id]
       ELSE /\ store' = store
            /\ last' = [Req("delete_memory", u) EXCEPT !.id = id, !.ok = FALSE]
    /\ steps' = steps + 1
    /\ UNCHANGED <<legacy, nextId, now, g, call>>

-----------------------------------------------------------------------------
(* reinforce / verify / decay *)

\* reinforce_memory: $inc relevance_score by 0.1, then the cap at 1.0
Reinforced(mem) ==
    [mem EXCEPT !.relevance_score = Min(@ + 10, 100), !.updated_at = now]

ReinforceMemory(u, id) ==
    /\ steps < MaxSteps
    /\ IF Found(u, id)
       THEN /\ store' = [store EXCEPT ![id] = Reinforced(@)]
            /\ last' = [Req("reinforce_memory", u) EXCEPT !.id = id]
       ELSE /\ store' = store
            /\ last' = [Req("reinforce_memory", u) EXCEPT !.id = id, !.ok = FALSE]
    /\ steps' = steps + 1
    /\ UNCHANGED <<legacy, nextId, now, g, call>>

\* (action, corrected_content) pairs a client sends; "approve" is no action
VerifyRequests ==
    { <<"confirm", <<>>>>, <<"reject", <<>>>>, <<"correct", <<>>>>,
      <<"correct", CGo>>, <<"approve", <<>>>> }

VerifyAccepts_Any(action, corrected_content) == TRUE
\* verify_memory: the calls that reach the update (the others return False)
VerifyAccepts(action, corrected_content) ==
    \/ action = "confirm"
    \/ action = "reject"
    \/ action = "correct" /\ corrected_content # <<>>

VerifySetData_Additive(mem, action, corrected_content) ==
    CASE action = "confirm" ->
           [mem EXCEPT !.status = "confirmed", !.confidence = mem.confidence + 20,
                       !.relevance_score = Min(mem.relevance_score + 20, 100)]
      [] action = "reject" ->
           [mem EXCEPT !.status = "rejected", !.confidence = 0,
                       !.relevance_score = 0]
      [] action = "correct" ->
           [mem EXCEPT !.status = "corrected", !.content = corrected_content,
                       !.confidence = 90,
                       !.embedding = generate_embedding(corrected_content)]
      [] OTHER -> mem
\* verify_memory: set_data of the action, applied to the record as read
VerifySetData_Uncapped(mem, action, corrected_content) ==
    CASE action = "confirm" ->
           [mem EXCEPT !.status = "confirmed", !.confidence = 100,
                       !.relevance_score = mem.relevance_score + 20]
      [] action = "reject" ->
           [mem EXCEPT !.status = "rejected", !.confidence = 0,
                       !.relevance_score = 0]
      [] action = "correct" ->
           [mem EXCEPT !.status = "corrected", !.content = corrected_content,
                       !.confidence = 90,
                       !.embedding = generate_embedding(corrected_content)]
      [] OTHER -> mem
VerifySetData(mem, action, corrected_content) ==
    CASE action = "confirm" ->
           [mem EXCEPT !.status = "confirmed", !.confidence = 100,
                       !.relevance_score = Min(mem.relevance_score + 20, 100)]
      [] action = "reject" ->
           [mem EXCEPT !.status = "rejected", !.confidence = 0,
                       !.relevance_score = 0]
      [] action = "correct" ->
           [mem EXCEPT !.status = "corrected", !.content = corrected_content,
                       !.confidence = 90,
                       !.embedding = generate_embedding(corrected_content)]
      [] OTHER -> mem

\* verify_memory: verification_entry
VerificationEntry(mem, action) ==
    [timestamp |-> now, action |-> action,
     previous_content |-> IF action = "correct" THEN mem.content ELSE <<>>]

Verified_Overwrites(mem, action, corrected_content) ==
    [VerifySetData(mem, action, corrected_content) EXCEPT
       !.verified_at = now, !.updated_at = now,
       !.verification_history = <<VerificationEntry(mem, action)>>]
\* verify_memory: the update_one with $set and $push
Verified(mem, action, corrected_content) ==
    [VerifySetData(mem, action, corrected_content) EXCEPT
       !.verified_at = now, !.updated_at = now,
       !.verification_history = Append(@, VerificationEntry(mem, action))]

VerifyMemory(u, id, action, corrected_content) ==
    /\ steps < MaxSteps
    /\ IF ~Found(u, id)
       THEN /\ store' = store
            /\ last' = [Req("verify_memory", u) EXCEPT
                          !.id = id, !.act = action, !.text = corrected_content,
                          !.ok = FALSE, !.err = "not found"]
       ELSE IF ~VerifyAccepts(action, corrected_content)
       THEN /\ store' = Touch(store, id)
            /\ last' = [Req("verify_memory", u) EXCEPT
                          !.id = id, !.act = action, !.text = corrected_content,
                          !.ok = FALSE, !.err = "invalid"]
       ELSE /\ store' = [Touch(store, id) EXCEPT
                           ![id] = Verified(@, action, corrected_content)]
            /\ last' = [Req("verify_memory", u) EXCEPT
                          !.id = id, !.act = action, !.text = corrected_content]
    /\ steps' = steps + 1
    /\ UNCHANGED <<legacy, nextId, now, g, call>>

\* decay_memories: the update_many filter
DecayMatches(mem) ==
    /\ \/ mem.last_accessed = Never
       \/ mem.last_accessed # Never /\ mem.last_accessed < now - DecayDays
    /\ mem.relevance_score > 10

\* decay_rate is a query parameter of the endpoint, an unconstrained float
DecayRates == {DefaultDecayRate, 150}

DecayMemories(u, decay_rate) ==
    /\ steps < MaxSteps
    /\ LET hit == {i \in OwnedBy(u) : DecayMatches(store[i])} IN
         /\ store' = [i \in Stored |->
                        IF i \in hit
                        THEN [store[i] EXCEPT !.relevance_score = @ - decay_rate,
                                              !.updated_at = now]
                        ELSE store[i]]
         /\ last' = [Req("decay_memories", u) EXCEPT !.out = SeqOfSet(hit)]
    /\ steps' = steps + 1
    /\ UNCHANGED <<legacy, nextId, now, g, call>>

-----------------------------------------------------------------------------
(* extraction *)

DuplicateThreshold == 90    \* similarity_threshold = 0.90

MinOf(S) == CHOOSE x \in S : \A y \in S : x <= y

IsDuplicateMemory_ExactOnly(st, u, new_content, new_embedding) ==
    LET exact == {i \in OwnedIn(st, u) : st[i].content = new_content}
    IN IF exact # {} THEN MinOf(exact) ELSE NoId
\* _is_duplicate_memory: the id of the existing record, or NoId
IsDuplicateMemory(st, u, new_content, new_embedding) ==
    LET exact == {i \in OwnedIn(st, u) : st[i].content = new_content}
        recent == {i \in OwnedIn(st, u) :
                     /\ st[i].created_at >= now - DedupDays
                     /\ st[i].embedding # <<>>
                     /\ cosine_similarity(new_embedding, st[i].embedding)
                          >= DuplicateThreshold}
    IN IF exact # {} THEN MinOf(exact)
       ELSE IF recent # {} THEN MinOf(recent)
       ELSE NoId

ReverseRelationshipType_Same(relationship_type) == relationship_type
\* _get_reverse_relationship_type
ReverseRelationshipType(relationship_type) ==
    CASE relationship_type = "supersedes"    -> "superseded_by"
      [] relationship_type = "superseded_by" -> "supersedes"
      [] relationship_type = "part_of"       -> "contains"
      [] relationship_type = "contains"      -> "part_of"
      [] relationship_type = "supports"      -> "supported_by"
      [] relationship_type = "supported_by"  -> "supports"
      [] relationship_type = "contradicts"   -> "contradicts"
      [] relationship_type = "relates_to"    -> "relates_to"
      [] relationship_type = "similar_to"    -> "similar_to"
      [] OTHER                               -> "relates_to"

\* $addToSet on a list field: appended unless an equal element is there
AddToSet(list, x) == IF x \in Range(list) THEN list ELSE Append(list, x)

\* link_memories: the relationship object.  created_at is datetime.utcnow()
\* of the call: the day and the position of the call in the run, since no two
\* calls read the same instant.
RelationshipAt(target_id, relationship_type, strength, stamp) ==
    [memory_id |-> target_id, type |-> relationship_type,
     strength |-> strength, created_at |-> <<now, stamp>>]

Relationship(target_id, relationship_type, strength) ==
    RelationshipAt(target_id, relationship_type, strength, steps)

\* link_memories: the two update_one calls, source first
Linked(st, source_id, target_id, relationship_type, strength, bidirectional) ==
    LET s1 == [st EXCEPT
                 ![source_id].relationships =
                     AddToSet(@, Relationship(target_id, relationship_type, strength)),
                 ![source_id].updated_at = now]
    IN IF bidirectional
       THEN [s1 EXCEPT
               ![target_id].relationships =
                   AddToSet(@, Relationship(source_id,
                               ReverseRelationshipType(relationship_type), strength)),
               ![target_id].updated_at = now]
       ELSE s1

AutoLinkCap == 5            \* if related_found >= 5: break
SimilarToThreshold == 90    \* if similarity >= 0.90
RelatesToThreshold == 75    \* elif similarity >= 0.75

RECURSIVE AutoLinkExisting(_, _, _, _, _)
\* the inner loop of _auto_link_related_memories as it is written, were it
\* reached: existing memories in cursor order, whatever their status
AutoLinkExisting(st, u, new_id, existing, related_found) ==
    IF existing = <<>> \/ related_found >= AutoLinkCap THEN st
    ELSE LET e == Head(existing)
             similarity == cosine_similarity(st[new_id].embedding, st[e].embedding)
         IN IF st[e].embedding = <<>>
            THEN AutoLinkExisting(st, u, new_id, Tail(existing), related_found)
            ELSE IF similarity >= SimilarToThreshold
            THEN AutoLinkExisting(Linked(st, new_id, e, "similar_to", similarity, TRUE),
                                  u, new_id, Tail(existing), related_found + 1)
            ELSE IF similarity >= RelatesToThreshold
            THEN AutoLinkExisting(Linked(st, new_id, e, "relates_to", similarity, TRUE),
                                  u, new_id, Tail(existing), related_found + 1)
            ELSE AutoLinkExisting(st, u, new_id, Tail(existing), related_found)

RECURSIVE AutoLinkNew(_, _, _, _)
AutoLinkNew(st, u, new_memories, existing) ==
    IF new_memories = <<>> THEN st
    ELSE LET new_id == Head(new_memories)
         IN AutoLinkNew(IF st[new_id].embedding = <<>> THEN st
                        ELSE AutoLinkExisting(st, u, new_id, existing, 0),
                        u, Tail(new_memories), existing)

AutoLinkRelatedMemories_Imported(st, u, new_ids) ==
    AutoLinkNew(st, u, SeqOfSet(new_ids), SeqOfSet(OwnedIn(st, u) \ new_ids))
\* _auto_link_related_memories: the first statement after the set of new ids
\* evaluates ObjectId(mid), a name the module never imports and this
\* function does not import locally; the NameError is caught by the
\* function's own handler, so no link is made and the store is as it was.
AutoLinkRelatedMemories(st, u, new_ids) == st

\* memory dicts the extractor returns
Candidates ==
    { [content |-> CPy, importance |-> 80, memory_type |-> "preference"],
      [content |-> CGo, importance |-> 50, memory_type |-> "preference"] }

\* memory dicts the extractor can also return: one without the key
\* "memory_type", one with an importance outside 0.0 .. 1.0
MalformedCandidates ==
    { [content |-> CRust, importance |-> 80, memory_type |-> None],
      [content |-> CRust, importance |-> 150, memory_type |-> "fact"] }

\* UserMemoryDocument(memory_type=mem_data["memory_type"], ...) returns: the
\* key is there and importance passes Field(ge=0.0, le=1.0)
Constructs(mem_data) ==
    /\ mem_data.memory_type # None
    /\ mem_data.importance \in 0..100

Batches(S) == UNION {[1..n -> S] : n \in 0..MaxBatch}

RECURSIVE ExtractLoop(_, _, _, _, _)
\* _ai_extract_memories: the loop over (mem_data, embedding)
ExtractLoop(st, nid, u, batch, created) ==
    IF batch = <<>>
    THEN [store |-> st, nextId |-> nid, created |-> created, raised |-> FALSE]
    ELSE LET mem_data == Head(batch)
             embedding == generate_embedding(mem_data.content)
             dup == IsDuplicateMemory(st, u, mem_data.content, embedding)
         IN IF dup # NoId
            THEN ExtractLoop([st EXCEPT ![dup] = Reinforced(@)],
                             nid, u, Tail(batch), created)
            ELSE IF ~Constructs(mem_data)
            THEN [store |-> st, nextId |-> nid, created |-> created, raised |-> TRUE]
            ELSE ExtractLoop(
                   st @@ (nid :> UserMemoryDocument(u, mem_data.content, embedding,
                                    mem_data.importance, 80, "pending",
                                    "ai_extraction", now)),
                   nid + 1, u, Tail(batch), Append(created, nid))

ExtractMemories(u, batch) ==
    /\ steps < MaxSteps
    /\ LET r == ExtractLoop(store, nextId, u, batch, <<>>) IN
         /\ store' = IF r.created # <<>> /\ ~r.raised
                     THEN AutoLinkRelatedMemories(r.store, u, Range(r.created))
                     ELSE r.store
         /\ nextId' = r.nextId
         \* except Exception: return []
         /\ last' = [Req("extract_memories", u) EXCEPT
                       !.out = IF r.raised THEN <<>> ELSE r.created,
                       !.batch = batch]
    /\ steps' = steps + 1
    /\ UNCHANGED <<legacy, now, g, call>>

-----------------------------------------------------------------------------
(* import *)

\* rows of an import; embedding <<>> is a row without the key
ImportRows ==
    { [content |-> CRust, embedding |-> <<>>,     importance |-> 80],
      [content |-> CPy,   embedding |-> <<0, 5>>, importance |-> 60] }

MergeStrategies == {"skip_duplicates", "update", "create_new"}

\* import_memories: the embedding stored for a new row
ImportEmbedding(row) ==
    IF row.embedding = <<>> THEN generate_embedding(row.content) ELSE row.embedding

RECURSIVE ImportLoop(_, _, _, _, _, _)
\* import_memories: the loop over the rows
ImportLoop(st, nid, u, rows, merge_strategy, created) ==
    IF rows = <<>> THEN [store |-> st, nextId |-> nid, created |-> created]
    ELSE LET row == Head(rows)
             same == {i \in OwnedIn(st, u) : st[i].content = row.content}
         IN IF same # {} /\ merge_strategy = "skip_duplicates"
            THEN ImportLoop(st, nid, u, Tail(rows), merge_strategy, created)
            ELSE IF same # {} /\ merge_strategy = "update"
            THEN ImportLoop([st EXCEPT ![MinOf(same)].importance = row.importance,
                                       ![MinOf(same)].updated_at = now],
                            nid, u, Tail(rows), merge_strategy, created)
            ELSE IF ~ValidScores(row.importance, 80)
            THEN ImportLoop(st, nid, u, Tail(rows), merge_strategy, created)
            ELSE ImportLoop(
                   st @@ (nid :> UserMemoryDocument(u, row.content, ImportEmbedding(row),
                                    row.importance, 80, "confirmed", "import", now)),
                   nid + 1, u, Tail(rows), merge_strategy, Append(created, nid))

ImportMemories(u, rows, merge_strategy) ==
    /\ steps < MaxSteps
    /\ rows # <<>>
    /\ LET r == ImportLoop(store, nextId, u, rows, merge_strategy, <<>>) IN
         /\ store' = r.store
         /\ nextId' = r.nextId
         /\ last' = [Req("import_memories", u) EXCEPT
                       !.act = merge_strategy, !.out = r.created]
    /\ steps' = steps + 1
    /\ UNCHANGED <<legacy, now, g, call>>

-----------------------------------------------------------------------------
(* consolidation *)

RECURSIVE JoinContents(_)
\* '; '.join(contents)
JoinContents(texts) ==
    IF texts = <<>> THEN <<>>
    ELSE IF Len(texts) = 1 THEN Head(texts)
    ELSE Head(texts) \o <<";">> \o JoinContents(Tail(texts))

RECURSIVE SumConfidence(_, _)
SumConfidence(st, ids) ==
    IF ids = <<>> THEN 0 ELSE st[Head(ids)].confidence + SumConfidence(st, Tail(ids))

RECURSIVE MaxImportance(_, _)
MaxImportance(st, ids) ==
    IF ids = <<>> THEN 0 ELSE Max(st[Head(ids)].importance, MaxImportance(st, Tail(ids)))

\* consolidate_memories: memories, sorted by (importance, confidence) descending
ConsolidationInputs(u, memory_ids) ==
    LET found == SeqOfSet({i \in memory_ids : Found(u, i)})
        keyed == [k \in 1..Len(found) |->
                    [id |-> found[k],
                     score |-> store[found[k]].importance * 100000
                               + store[found[k]].confidence]]
        sorted == SortDesc(keyed)
    IN [k \in 1..Len(sorted) |-> sorted[k].id]

Superseded_KeepsRelevance(mem, new_id) ==
    [mem EXCEPT !.superseded_by = new_id, !.updated_at = now]
\* consolidate_memories: what the call does to an input record
Superseded(mem, new_id) ==
    [mem EXCEPT !.superseded_by = new_id, !.relevance_score = 10, !.updated_at = now]

\* consolidate_memories: the consolidated record
ConsolidatedMemory(u, ids, consolidated_content) ==
    LET text == IF consolidated_content # <<>> THEN consolidated_content
                ELSE <<"consolidated:">>
                       \o JoinContents([k \in 1..Len(ids) |-> store[ids[k]].content])
    IN UserMemoryDocument(u, text, generate_embedding(text),
          Min(MaxImportance(store, ids) + 10, 100),
          SumConfidence(store, ids) \div Len(ids),
          "confirmed", "consolidation", now)

ConsolidateMemories(u, memory_ids, consolidated_content) ==
    /\ steps < MaxSteps
    /\ LET ids == ConsolidationInputs(u, memory_ids)
           new == ConsolidatedMemory(u, ids, consolidated_content)
       IN IF Cardinality(memory_ids) < 2 \/ Len(ids) < 2
             \/ ~ValidScores(new.importance, new.confidence)
          THEN /\ last' = [Req("consolidate_memories", u) EXCEPT
                             !.ids = memory_ids, !.ok = FALSE]
               /\ UNCHANGED <<store, nextId>>
          ELSE /\ store' = [i \in Stored \cup {nextId} |->
                              IF i = nextId THEN new
                              ELSE IF i \in Range(ids) THEN Superseded(store[i], nextId)
                              ELSE store[i]]
               /\ nextId' = nextId + 1
               /\ last' = [Req("consolidate_memories", u) EXCEPT
                             !.ids = memory_ids, !.id = nextId, !.out = ids]
    /\ steps' = steps + 1
    /\ UNCHANGED <<legacy, now, g, call>>

-----------------------------------------------------------------------------
(* retrieval *)

RelevantQuery_AnyStatus(mem, u, min_importance) ==
    /\ mem.user_id = u
    /\ mem.importance >= min_importance
\* get_relevant_memories: the find() filter
RelevantQuery(mem, u, min_importance) ==
    /\ mem.user_id = u
    /\ mem.importance >= min_importance
    /\ mem.status # "rejected"

\* status_multiplier
StatusMultiplier(status) ==
    CASE status = "confirmed" -> 120
      [] status = "corrected" -> 110
      [] status = "pending"   -> 100
      [] status = "rejected"  -> 0
      [] OTHER                -> 100

\* context_lower in content_lower, on whole words
Contains(text, part) ==
    \E k \in 0..(Len(text) - Len(part)) : SubSeq(text, k + 1, k + Len(part)) = part

\* _keyword_relevance (no tags are modelled)
KeywordRelevance(context, mem) ==
    IF Contains(mem.content, context) THEN 100
    ELSE IF Len(context) > 0
         THEN (Cardinality(Range(context) \cap Range(mem.content)) * 100)
                \div Cardinality(Range(context))
         ELSE 0

\* final_score of one candidate on the semantic path (no conversation_contexts)
SemanticScore(context, mem) ==
    ( IF mem.embedding # <<>>
      THEN cosine_similarity(generate_embedding(context), mem.embedding)
      ELSE KeywordRelevance(context, mem) )
    * mem.importance * mem.relevance_score * StatusMultiplier(mem.status)

\* get_relevant_memories: the ids returned, best first
RelevantIds(u, context, limit, min_importance) ==
    LET all_memories == SeqOfSet({i \in Stored :
                                   RelevantQuery(store[i], u, min_importance)})
        semantic == [k \in 1..Len(all_memories) |->
                       [id |-> all_memories[k],
                        score |-> SemanticScore(context, store[all_memories[k]])]]
        hits == SelectSeq(all_memories,
                          LAMBDA i : KeywordRelevance(context, store[i]) > 0)
        keyword == [k \in 1..Len(hits) |->
                      [id |-> hits[k],
                       score |-> KeywordRelevance(context, store[hits[k]])
                                 * store[hits[k]].importance
                                 * store[hits[k]].relevance_score]]
        top == Take(SortDesc(IF CanEmbed(context) THEN semantic ELSE keyword), limit)
    IN [k \in 1..Len(top) |-> top[k].id]

RECURSIVE TouchAll(_, _)
TouchAll(st, ids) ==
    IF ids = <<>> THEN st ELSE TouchAll(Touch(st, Head(ids)), Tail(ids))

Queries == { <<"python">>, <<>> }
Limits == {1, 2}
MinImportances == {30}

GetRelevantMemories(u, context, limit, min_importance) ==
    /\ steps < MaxSteps
    /\ LET ids == RelevantIds(u, context, limit, min_importance) IN
         /\ store' = TouchAll(store, ids)
         /\ last' = [Req("get_relevant_memories", u) EXCEPT
                       !.text = context, !.out = ids, !.limit = limit]
    /\ steps' = steps + 1
    /\ UNCHANGED <<legacy, nextId, now, g, call>>

-----------------------------------------------------------------------------
(* bulk delete *)

\* bulk_delete: the delete_many query; memory_ids {} and filter None are absent
BulkQuery(mem, u, memory_ids, filter_status) ==
    /\ mem.user_id = u
    /\ filter_status # None => mem.status = filter_status

BulkDelete(u, memory_ids, filter_status) ==
    /\ steps < MaxSteps
    /\ LET hit == {i \in Stored :
                     /\ BulkQuery(store[i], u, memory_ids, filter_status)
                     /\ memory_ids # {} => i \in memory_ids}
       IN /\ store' = Remove(store, hit)
          /\ legacy' = IF memory_ids = {}
                          /\ BulkQuery(LegacyDoc(u), u, memory_ids, filter_status)
                       THEN [legacy EXCEPT ![u] = 0]
                       ELSE legacy
          /\ last' = [Req("bulk_delete", u) EXCEPT
                        !.ids = memory_ids, !.act = filter_status,
                        !.out = SeqOfSet(hit)]
    /\ steps' = steps + 1
    /\ UNCHANGED <<nextId, now, g, call>>

-----------------------------------------------------------------------------
(* relationship graph *)

LinkMemories(u, source_id, target_id, relationship_type, bidirectional) ==
    /\ steps < MaxSteps
    /\ g.pc = "idle"
    /\ IF Found(u, source_id) /\ Found(u, target_id)
       THEN /\ store' = Linked(store, source_id, target_id, relationship_type,
                               80, bidirectional)
            /\ last' = [Req("link_memories", u) EXCEPT
                          !.id = source_id, !.ids = {target_id},
                          !.act = relationship_type, !.flag = bidirectional]
       ELSE /\ store' = store
            /\ last' = [Req("link_memories", u) EXCEPT
                          !.id = source_id, !.ids = {target_id},
                          !.act = relationship_type, !.flag = bidirectional,
                          !.ok = FALSE]
    /\ steps' = steps + 1
    /\ UNCHANGED <<legacy, nextId, now, g, call>>

SkipEntry_DepthOnly(current_id, depth, visited, max_depth) == depth > max_depth
\* get_memory_graph: the test that skips a queue entry
SkipEntry(current_id, depth, visited, max_depth) ==
    current_id \in visited \/ depth > max_depth

\* get_memory_graph: the edges appended for the relationships of a record
EdgesOf(current_id, relationships) ==
    [k \in 1..Len(relationships) |->
       [source |-> current_id, target |-> relationships[k].memory_id,
        type |-> relationships[k].type, strength |-> relationships[k].strength]]

\* get_memory_graph: the queue entries appended for the relationships of a record
QueuedFrom(relationships, depth, visited) ==
    LET unvisited == SelectSeq(relationships, LAMBDA rel : rel.memory_id \notin visited)
    IN [k \in 1..Len(unvisited) |->
          [id |-> unvisited[k].memory_id, depth |-> depth + 1]]

\* get_memory_graph: one iteration of `while queue`
GraphVisit(gs) ==
    LET cur == Head(gs.queue)
        rest == Tail(gs.queue)
    IN IF SkipEntry(cur.id, cur.depth, gs.visited, gs.max_depth)
       THEN [gs EXCEPT !.queue = rest]
       ELSE IF ~Found(gs.user, cur.id)
       THEN [gs EXCEPT !.queue = rest, !.visited = @ \cup {cur.id}]
       ELSE LET visited == gs.visited \cup {cur.id}
                rels == store[cur.id].relationships
            IN [gs EXCEPT
                  !.visited = visited,
                  !.nodes = Append(@, [id |-> cur.id, depth |-> cur.depth]),
                  !.edges = @ \o EdgesOf(cur.id, rels),
                  !.queue = rest \o QueuedFrom(rels, cur.depth, visited)]

\* get_memory_graph: the root lookup and the initial queue
GraphStart(u, memory_id, max_depth) ==
    /\ g.pc = "idle"
    /\ g' = IF Found(u, memory_id)
            THEN [GIdle EXCEPT !.pc = "loop", !.user = u, !.root = memory_id,
                               !.max_depth = max_depth,
                               !.queue = <<[id |-> memory_id, depth |-> 0]>>]
            ELSE [GIdle EXCEPT !.pc = "done", !.user = u, !.root = memory_id,
                               !.max_depth = max_depth]
    /\ last' = [Req("get_memory_graph", u) EXCEPT !.id = memory_id]
    /\ UNCHANGED <<store, legacy, nextId, now, steps, call>>

GraphIterate ==
    /\ g.pc = "loop"
    /\ g.queue # <<>>
    /\ g' = GraphVisit(g)
    /\ UNCHANGED <<store, legacy, nextId, now, steps, last, call>>

GraphReturn ==
    /\ g.pc = "loop"
    /\ g.queue = <<>>
    /\ g' = [g EXCEPT !.pc = "done"]
    /\ UNCHANGED <<store, legacy, nextId, now, steps, last, call>>

\* a deletion while no traversal runs
GraphDelete(u, id) ==
    /\ g.pc = "idle"
    /\ Found(u, id)
    /\ DeleteMemory(u, id)

\* three imported records of one user, before any link
InitGraph ==
    /\ store = [i \in 1..3 |->
                  UserMemoryDocument("u1", CRust, generate_embedding(CRust),
                                     80, 80, "confirmed", "import", 0)]
    /\ legacy = [u \in Users |-> 0]
    /\ nextId = 4
    /\ now = 0
    /\ steps = 0
    /\ last = Req("init", None)
    /\ g = GIdle
    /\ call = CIdle

LinkTypes == {"similar_to", "supersedes"}

NextGraph ==
    \/ \E s \in 1..3, t \in 1..3, ty \in LinkTypes, b \in BOOLEAN :
          LinkMemories("u1", s, t, ty, b)
    \/ \E id \in 1..3 : GraphDelete("u1", id)
    \/ \E u \in Users, d \in 0..MaxDepth : GraphStart(u, 1, d)
    \/ GraphIterate
    \/ GraphReturn

\* a started traversal is never abandoned: the call runs to its return
SpecGraph ==
    InitGraph /\ [][NextGraph]_vars /\ WF_vars(GraphIterate) /\ WF_vars(GraphReturn)

-----------------------------------------------------------------------------
(* calls taken one database operation at a time *)

\* link_memories: one update_one with $addToSet, matched by _id alone
LinkedOne(st, holder_id, other_id, relationship_type, strength, stamp) ==
    IF holder_id \in DOMAIN st
    THEN [st EXCEPT
            ![holder_id].relationships =
                AddToSet(@, RelationshipAt(other_id, relationship_type, strength, stamp)),
            ![holder_id].updated_at = now]
    ELSE st

LinkReturned(c, ok) ==
    [Req("link_memories", c.user) EXCEPT
       !.id = c.id, !.ids = {c.target}, !.act = c.act, !.flag = c.flag, !.ok = ok]

\* link_memories: the two find_one calls that validate the records
LinkBegin(u, source_id, target_id, relationship_type, bidirectional) ==
    /\ steps < MaxSteps
    /\ call.pc = "idle"
    /\ LET c == [CIdle EXCEPT !.pc = "link_source", !.op = "link_memories",
                              !.user = u, !.id = source_id, !.target = target_id,
                              !.act = relationship_type, !.flag = bidirectional,
                              !.stamp = steps]
       IN IF Found(u, source_id) /\ Found(u, target_id)
          THEN call' = c /\ last' = last
          ELSE call' = CIdle /\ last' = LinkReturned(c, FALSE)
    /\ steps' = steps + 1
    /\ UNCHANGED <<store, legacy, nextId, now, g>>

\* link_memories: the update of the source, and the return when one-way
LinkSource ==
    /\ call.pc = "link_source"
    /\ store' = LinkedOne(store, call.id, call.target, call.act, 80, call.stamp)
    /\ IF call.flag
       THEN call' = [call EXCEPT !.pc = "link_target"] /\ last' = last
       ELSE call' = CIdle /\ last' = LinkReturned(call, TRUE)
    /\ UNCHANGED <<legacy, nextId, now, steps, g>>

\* link_memories: the update of the target, and the return
LinkTarget ==
    /\ call.pc = "link_target"
    /\ store' = LinkedOne(store, call.target, call.id,
                          ReverseRelationshipType(call.act), 80, call.stamp)
    /\ call' = CIdle
    /\ last' = LinkReturned(call, TRUE)
    /\ UNCHANGED <<legacy, nextId, now, steps, g>>

VerifyWritten_IncUncapped(cur, read, action, corrected_content) ==
    LET set_data == VerifySetData(read, action, corrected_content)
    IN [cur EXCEPT
          !.status = set_data.status,
          !.confidence = set_data.confidence,
          !.verified_at = now,
          !.updated_at = now,
          !.verification_history = Append(@, VerificationEntry(read, action)),
          !.content = set_data.content,
          !.embedding = set_data.embedding,
          !.relevance_score = IF action = "confirm" THEN @ + 20
                              ELSE IF action = "reject" THEN 0 ELSE @]
\* verify_memory: the update_one, with set_data computed from the document
\* as get_memory read it, applied to the document as it is now
VerifyWritten(cur, read, action, corrected_content) ==
    LET set_data == VerifySetData(read, action, corrected_content)
        on_all == [cur EXCEPT
                     !.status = set_data.status,
                     !.confidence = set_data.confidence,
                     !.verified_at = now,
                     !.updated_at = now,
                     !.verification_history =
                         Append(@, VerificationEntry(read, action))]
    IN IF action = "correct"
       THEN [on_all EXCEPT !.content = set_data.content,
                           !.embedding = set_data.embedding]
       ELSE [on_all EXCEPT !.relevance_score = set_data.relevance_score]

VerifyReturned(c, ok) ==
    [Req("verify_memory", c.user) EXCEPT
       !.id = c.id, !.act = c.act, !.text = c.text, !.ok = ok,
       !.err = IF ok THEN None ELSE "failed"]

\* verify_memory: the find_one of get_memory
VerifyBegin(u, id, action, corrected_content) ==
    /\ steps < MaxSteps
    /\ call.pc = "idle"
    /\ LET c == [CIdle EXCEPT !.pc = "verify_touch", !.op = "verify_memory",
                              !.user = u, !.id = id, !.act = action,
                              !.text = corrected_content, !.stamp = steps]
       IN IF Found(u, id)
          THEN call' = [c EXCEPT !.read = <<store[id]>>] /\ last' = last
          ELSE call' = CIdle /\ last' = VerifyReturned(c, FALSE)
    /\ steps' = steps + 1
    /\ UNCHANGED <<store, legacy, nextId, now, g>>

\* verify_memory: the access tracking update of get_memory (matched by _id
\* alone), then the checks on the action
VerifyTouch ==
    /\ call.pc = "verify_touch"
    /\ store' = IF call.id \in Stored THEN Touch(store, call.id) ELSE store
    /\ IF VerifyAccepts(call.act, call.text)
       THEN call' = [call EXCEPT !.pc = "verify_write"] /\ last' = last
       ELSE call' = CIdle /\ last' = VerifyReturned(call, FALSE)
    /\ UNCHANGED <<legacy, nextId, now, steps, g>>

\* verify_memory: the update_one with $set and $push, and the return
VerifyWrite ==
    /\ call.pc = "verify_write"
    /\ IF Found(call.user, call.id)
       THEN /\ store' = [store EXCEPT
                           ![call.id] = VerifyWritten(@, call.read[1], call.act, call.text)]
            /\ last' = VerifyReturned(call, TRUE)
       ELSE /\ store' = store
            /\ last' = VerifyReturned(call, FALSE)
    /\ call' = CIdle
    /\ UNCHANGED <<legacy, nextId, now, steps, g>>

\* reinforce_memory: the first update_one, $inc relevance_score by 0.1
ReinforceInc(u, id) ==
    /\ steps < MaxSteps
    /\ call.pc = "idle"
    /\ IF Found(u, id)
       THEN /\ store' = [store EXCEPT ![id].relevance_score = @ + 10,
                                      ![id].updated_at = now]
            /\ call' = [CIdle EXCEPT !.pc = "reinforce_cap", !.op = "reinforce_memory",
                                     !.user = u, !.id = id, !.stamp = steps]
            /\ last' = last
       ELSE /\ store' = store
            /\ call' = CIdle
            /\ last' = [Req("reinforce_memory", u) EXCEPT !.id = id, !.ok = FALSE]
    /\ steps' = steps + 1
    /\ UNCHANGED <<legacy, nextId, now, g>>

\* reinforce_memory: the second update_one, matched by _id and
\* relevance_score > 1.0, and the return
ReinforceCap ==
    /\ call.pc = "reinforce_cap"
    /\ store' = IF call.id \in Stored /\ store[call.id].relevance_score > 100
                THEN [store EXCEPT ![call.id].relevance_score = 100]
                ELSE store
    /\ call' = CIdle
    /\ last' = [Req("reinforce_memory", call.user) EXCEPT !.id = call.id]
    /\ UNCHANGED <<legacy, nextId, now, steps, g>>

\* the requests and the maintenance pass that run beside a call in flight
NextConc ==
    \/ \E s \in 1..2, t \in 1..2, ty \in LinkTypes, b \in BOOLEAN :
          LinkBegin("u1", s, t, ty, b)
    \/ LinkSource
    \/ LinkTarget
    \/ \E r \in VerifyRequests : VerifyBegin("u1", 1, r[1], r[2])
    \/ VerifyTouch
    \/ VerifyWrite
    \/ \E id \in 1..2 : ReinforceInc("u1", id)
    \/ ReinforceCap
    \/ \E s \in 1..2, t \in 1..2 : LinkMemories("u1", s, t, "similar_to", TRUE)
    \/ \E r \in VerifyRequests : VerifyMemory("u1", 1, r[1], r[2])
    \/ DecayMemories("u1", DefaultDecayRate)
    \/ \E id \in 1..2 : DeleteMemory("u1", id)
    \/ Tick

SpecConc == InitGraph /\ [][NextConc]_vars

-----------------------------------------------------------------------------
(* maintenance jobs *)

\* decay_memories as run_memory_decay calls it for one user: decay_rate=0.01
RunMemoryDecay(u) == DecayMemories(u, DefaultDecayRate)

\* str.lower() on the words of the model
Lower(w) ==
    CASE w = "Prefers"  -> "prefers"
      [] w = "Dislikes" -> "dislikes"
      [] w = "Python"   -> "python"
      [] OTHER          -> w

LowerText(text) == [k \in 1..Len(text) |-> Lower(text[k])]

\* re.search(pattern, text), a pattern given as the phrases it matches.  The
\* patterns of the source are raw strings with doubled backslashes,
\* r"\\bprefers?\\b": the regular expression \\b is a literal backslash
\* followed by the letter b, not a word boundary, so each phrase begins and
\* ends with those two characters.
re_search(phrases, text) == \E p \in phrases : Contains(text, p)

\* _check_contradiction: negation_pairs
negation_pairs ==
    { << {<<"\\bprefer\\b">>, <<"\\bprefers\\b">>},
         {<<"\\bdislike\\b">>, <<"\\bdislikes\\b">>, <<"\\bhate\\b">>,
          <<"\\bhates\\b">>, <<"\\bavoid\\b">>, <<"\\bavoids\\b">>} >>,
      << {<<"\\blike\\b">>, <<"\\blikes\\b">>},
         {<<"\\bdislike\\b">>, <<"\\bdislikes\\b">>, <<"\\bhate\\b">>,
          <<"\\bhates\\b">>} >>,
      << {<<"\\buse\\b">>, <<"\\buses\\b">>},
         {<<"\\bdoesn't", "use\\b">>, <<"\\bnever", "use\\b">>,
          <<"\\bnever", "uses\\b">>} >>,
      << {<<"\\bwork", "at\\b">>, <<"\\bworks", "at\\b">>,
          <<"\\bwork", "for\\b">>, <<"\\bworks", "for\\b">>},
         {<<"\\bleft\\b">>, <<"\\bquit\\b">>, <<"\\bfired", "from\\b">>} >>,
      << {<<"\\bexpert", "in\\b">>, <<"\\bexpert", "at\\b">>},
         {<<"\\bbeginner\\b">>, <<"\\bnew", "to\\b">>, <<"\\blearning\\b">>} >>,
      << {<<"\\byes\\b">>},    {<<"\\bno\\b">>} >>,
      << {<<"\\btrue\\b">>},   {<<"\\bfalse\\b">>} >>,
      << {<<"\\balways\\b">>}, {<<"\\bnever\\b">>} >> }

\* _check_contradiction
CheckContradiction(content1, content2) ==
    LET c1 == LowerText(content1)
        c2 == LowerText(content2)
    IN \E pair \in negation_pairs :
          \/ re_search(pair[1], c1) /\ re_search(pair[2], c2)
          \/ re_search(pair[2], c1) /\ re_search(pair[1], c2)

\* detect_conflicts: 0.70 <= similarity < 0.85
ConflictBand(similarity) == similarity >= 70 /\ similarity < 85

\* detect_conflicts: the memories found in conflict with `m`, in cursor order
ConflictsOf(st, u, m) ==
    SeqOfSet({o \in OwnedIn(st, u) :
                /\ o # m
                /\ st[o].status # "rejected"
                /\ st[o].embedding # <<>>
                /\ ConflictBand(cosine_similarity(st[m].embedding, st[o].embedding))
                /\ CheckContradiction(st[m].content, st[o].content)})

RECURSIVE ConflictPairs(_, _, _)
\* detect_conflicts: the outer loop, records without an embedding skipped
ConflictPairs(st, u, to_check) ==
    IF to_check = <<>> THEN <<>>
    ELSE LET m == Head(to_check)
             os == IF st[m].embedding = <<>> THEN <<>> ELSE ConflictsOf(st, u, m)
         IN [k \in 1..Len(os) |-> <<m, os[k]>>] \o ConflictPairs(st, u, Tail(to_check))

\* detect_conflicts: the update_one that marks one record
ConflictMarked(st, id, other_id) ==
    [st EXCEPT ![id].conflict_detected = TRUE,
               ![id].last_conflict_check = now,
               ![id].conflict_ids = AddToSet(@, other_id)]

RECURSIVE ConflictsMarked(_, _)
ConflictsMarked(st, pairs) ==
    IF pairs = <<>> THEN st
    ELSE ConflictsMarked(
           ConflictMarked(ConflictMarked(st, Head(pairs)[1], Head(pairs)[2]),
                          Head(pairs)[2], Head(pairs)[1]),
           Tail(pairs))

\* detect_conflicts; memory_id NoId is the absent parameter
DetectConflicts(u, memory_id) ==
    /\ steps < MaxSteps
    /\ LET to_check ==
             IF memory_id # NoId
             THEN IF Found(u, memory_id) THEN <<memory_id>> ELSE <<>>
             ELSE SeqOfSet({i \in OwnedBy(u) : store[i].status # "rejected"})
           conflicts == ConflictPairs(store, u, to_check)
       IN /\ store' = ConflictsMarked(store, conflicts)
          /\ last' = [Req("detect_conflicts", u) EXCEPT
                        !.id = memory_id, !.out = conflicts]
    /\ steps' = steps + 1
    /\ UNCHANGED <<legacy, nextId, now, g, call>>

\* classify_expiration_type: the keyword lists, written like negation_pairs
temporary_keywords ==
    {<<"\\bcurrently\\b">>, <<"\\bright", "now\\b">>, <<"\\bthis", "week\\b">>,
     <<"\\bthis", "month\\b">>, <<"\\btemporary\\b">>, <<"\\bfor", "now\\b">>,
     <<"\\btrying", "out\\b">>, <<"\\btesting\\b">>}
seasonal_keywords ==
    {<<"\\bthis", "year\\b">>, <<"\\bthis", "quarter\\b">>, <<"\\bthis", "season\\b">>,
     <<"\\bspring\\b">>, <<"\\bsummer\\b">>, <<"\\bfall\\b">>, <<"\\bwinter\\b">>,
     <<"\\bholiday\\b">>}

TemporaryDays == 90
SeasonalDays == 365

\* classify_expiration_type: the $set of one record
ExpirationClassified(mem) ==
    LET content_lower == LowerText(mem.content)
        seasonal == re_search(seasonal_keywords, content_lower)
        temporary == re_search(temporary_keywords, content_lower)
    IN [mem EXCEPT
          !.expiration_type = IF seasonal THEN "seasonal"
                              ELSE IF temporary THEN "temporary" ELSE "permanent",
          !.expires_at = IF seasonal THEN now + SeasonalDays
                         ELSE IF temporary THEN now + TemporaryDays ELSE Never,
          !.updated_at = now]

\* classify_expiration_type; memory_id NoId is the absent parameter
ClassifyExpirationType(u, memory_id) ==
    /\ steps < MaxSteps
    /\ LET hit == IF memory_id # NoId
                  THEN {i \in OwnedBy(u) : i = memory_id}
                  ELSE {i \in OwnedBy(u) : store[i].expiration_type = "permanent"}
       IN /\ store' = [i \in Stored |->
                         IF i \in hit THEN ExpirationClassified(store[i]) ELSE store[i]]
          /\ last' = [Req("classify_expiration_type", u) EXCEPT
                        !.id = memory_id, !.out = SeqOfSet(hit)]
    /\ steps' = steps + 1
    /\ UNCHANGED <<legacy, nextId, now, g, call>>

\* cleanup_old_memories: score = relevance_score * importance * access_count
CleanupScore(mem) == mem.relevance_score * mem.importance * mem.access_count

\* cleanup_old_memories: `tail` can be the records left after $sort by score
\* descending and $skip keep_count.  $sort leaves the order of equal scores
\* open, so the tail is any set of the right size that holds no record above
\* one it leaves out.  The documents counted in `legacy` have score 0 and
\* importance 1.0; `lt` of them are in the tail.
CleanupTail(u, tail, keep_count) ==
    LET own == OwnedBy(u)
        size == Max(0, count_documents(u) - keep_count)
        lt == size - Cardinality(tail)
    IN /\ tail \subseteq own
       /\ lt >= 0 /\ lt <= legacy[u]
       /\ \A x \in tail, y \in own \ tail :
             CleanupScore(store[y]) >= CleanupScore(store[x])
       /\ (\E x \in tail : CleanupScore(store[x]) > 0) => lt = legacy[u]
       /\ (\E y \in own \ tail : CleanupScore(store[y]) < 0) => lt = 0

\* cleanup_old_memories
CleanupOldMemories(u, keep_count, min_importance) ==
    /\ steps < MaxSteps
    /\ \E tail \in SUBSET OwnedBy(u) :
          /\ CleanupTail(u, tail, keep_count)
          /\ LET to_delete == {i \in tail : store[i].importance < min_importance}
             IN /\ store' = Remove(store, to_delete)
                /\ last' = [Req("cleanup_old_memories", u) EXCEPT
                              !.out = SeqOfSet(to_delete)]
    /\ steps' = steps + 1
    /\ UNCHANGED <<legacy, nextId, now, g, call>>

CleanupThreshold == 800
CleanupKeepCount == 700
CleanupMinImportance == 50

\* run_memory_cleanup, for one user of its aggregate: count >= 800
RunMemoryCleanup(u) ==
    /\ count_documents(u) >= CleanupThreshold
    /\ CleanupOldMemories(u, CleanupKeepCount, CleanupMinImportance)

\* four records of u1 from extraction, one of them of low importance, alone
\* or beside 796 older documents
InitMaint ==
    /\ store = [i \in 1..4 |->
                  LET text == CASE i = 1 -> CPrefers [] i = 2 -> CDislikes
                                [] i = 3 -> CEscPrefers [] OTHER -> CEscDislikes
                  IN UserMemoryDocument("u1", text, generate_embedding(text),
                                        IF i = 1 THEN 30 ELSE 80, 80,
                                        "pending", "ai_extraction", 0)]
    /\ legacy \in {[u \in Users |-> IF u = "u1" THEN n ELSE 0] :
                     n \in {0, CleanupThreshold - 4}}
    /\ nextId = 5
    /\ now = 0
    /\ steps = 0
    /\ last = Req("init", None)
    /\ g = GIdle
    /\ call = CIdle

NextMaint ==
    \/ Tick
    \/ \E u \in Users : RunMemoryDecay(u)
    \/ \E u \in Users, id \in IdInputs : DetectConflicts(u, id)
    \/ \E u \in Users, id \in IdInputs : ClassifyExpirationType(u, id)
    \/ \E u \in Users : RunMemoryCleanup(u)
    \/ \E u \in Users, id \in IdInputs : GetMemory(u, id)
    \/ \E u \in Users, id \in IdInputs : VerifyMemory(u, id, "reject", <<>>)
    \/ \E u \in Users, id \in IdInputs : DeleteMemory(u, id)
    \/ \E u \in Users, ids \in SUBSET IdInputs :
          /\ Cardinality(ids) = 2
          /\ ConsolidateMemories(u, ids, <<>>)
    \/ \E u \in Users, ids \in SUBSET IdInputs :
          /\ Cardinality(ids) <= 1
          /\ BulkDelete(u, ids, "rejected")

SpecMaint == InitMaint /\ [][NextMaint]_vars

-----------------------------------------------------------------------------
(* a verify call beside the decay pass *)

\* two records of u1 from extraction, never accessed, fresh or half decayed
InitRace ==
    /\ \E r \in {100, 50} :
          store = [i \in 1..2 |->
                     [UserMemoryDocument("u1", CRust, generate_embedding(CRust),
                                         80, 80, "pending", "ai_extraction", 0)
                        EXCEPT !.relevance_score = r]]
    /\ legacy = [u \in Users |-> 0]
    /\ nextId = 3
    /\ now = 0
    /\ steps = 0
    /\ last = Req("init", None)
    /\ g = GIdle
    /\ call = CIdle

NextRace ==
    \/ \E r \in VerifyRequests : VerifyBegin("u1", 1, r[1], r[2])
    \/ VerifyTouch
    \/ VerifyWrite
    \/ \E u \in Users : RunMemoryDecay(u)
    \/ \E id \in 1..2 : GetMemory("u1", id)
    \/ Tick

SpecRace == InitRace /\ [][NextRace]_vars

-----------------------------------------------------------------------------
(* extraction for a user who already has memories *)

\* six records of u1 imported eight days ago, the sixth nearer to the text an
\* extraction will bring (similarity 0.90 to CGo) than the first five (0.80)
InitLink ==
    /\ store = [i \in 1..6 |->
                  LET text == IF i = 6 THEN CPy ELSE CRust
                  IN UserMemoryDocument("u1", text, generate_embedding(text),
                                        80, 80, "confirmed", "import", 0)]
    /\ legacy = [u \in Users |-> 0]
    /\ nextId = 7
    /\ now = DedupDays + 1
    /\ steps = 0
    /\ last = Req("init", None)
    /\ g = GIdle
    /\ call = CIdle

NextLink ==
    \/ \E u \in Users, batch \in Batches(Candidates) : ExtractMemories(u, batch)
    \/ \E id \in 1..6 : VerifyMemory("u1", id, "reject", <<>>)
    \/ \E id \in 1..6 : DeleteMemory("u1", id)
    \/ Tick

SpecLink == InitLink /\ [][NextLink]_vars

-----------------------------------------------------------------------------
(* retrieval among equally scored memories *)

\* a limit is a query parameter of the endpoint, an unconstrained int
RetrievalLimits == {-1, 1, 2}

\* three imported records of u1: the same text imported on day 0 and again
\* (merge strategy create_new) on day 8, and another text
InitRetr ==
    /\ store = [i \in 1..3 |->
                  LET text == IF i = 3 THEN CRust ELSE CPy
                  IN UserMemoryDocument("u1", text, generate_embedding(text),
                                        80, 80, "confirmed", "import",
                                        IF i = 2 THEN DedupDays + 1 ELSE 0)]
    /\ legacy = [u \in Users |-> 0]
    /\ nextId = 4
    /\ now = DedupDays + 1
    /\ steps = 0
    /\ last = Req("init", None)
    /\ g = GIdle
    /\ call = CIdle

NextRetr ==
    \/ \E u \in Users, q \in Queries, n \in RetrievalLimits, mi \in MinImportances :
          GetRelevantMemories(u, q, n, mi)
    \/ \E id \in 1..3, v \in VerifyRequests : VerifyMemory("u1", id, v[1], v[2])
    \/ \E id \in 1..3 : DeleteMemory("u1", id)
    \/ Tick

SpecRetr == InitRetr /\ [][NextRetr]_vars

-----------------------------------------------------------------------------
(* extraction from extractor output that is not all well formed *)

NextExtract ==
    \/ \E u \in Users, batch \in Batches(Candidates \cup MalformedCandidates) :
          ExtractMemories(u, batch)
    \/ \E u \in Users, id \in IdInputs : VerifyMemory(u, id, "reject", <<>>)
    \/ \E u \in Users, id \in IdInputs : DeleteMemory(u, id)
    \/ Tick

SpecExtract == Init /\ [][NextExtract]_vars

-----------------------------------------------------------------------------
(* the calls that take a memory id, made by two users on each other's ids *)

\* one imported record for each user
InitOwn ==
    /\ store = [i \in 1..2 |->
                  UserMemoryDocument(IF i = 1 THEN "u1" ELSE "u2", CRust,
                                     generate_embedding(CRust),
                                     80, 80, "confirmed", "import", 0)]
    /\ legacy = [u \in Users |-> 0]
    /\ nextId = 3
    /\ now = 0
    /\ steps = 0
    /\ last = Req("init", None)
    /\ g = GIdle
    /\ call = CIdle

NextOwn ==
    \/ \E u \in Users, id \in IdInputs : GetMemory(u, id)
    \/ \E u \in Users, id \in IdInputs, req \in UpdateRequests :
          UpdateMemory(u, id, req)
    \/ \E u \in Users, id \in IdInputs : DeleteMemory(u, id)
    \/ \E u \in Users, id \in IdInputs : ReinforceMemory(u, id)
    \/ \E u \in Users, id \in IdInputs, v \in VerifyRequests :
          VerifyMemory(u, id, v[1], v[2])
    \/ \E u \in Users, s \in IdInputs, t \in IdInputs, b \in BOOLEAN :
          LinkMemories(u, s, t, "supersedes", b)
    \/ \E u \in Users, ids \in SUBSET IdInputs, f \in {None, "rejected"} :
          BulkDelete(u, ids, f)

SpecOwn == InitOwn /\ [][NextOwn]_vars

Next ==
    \/ Tick
    \/ \E u \in Users, skip \in BOOLEAN : CreateMemory(u, CPy, skip)
    \/ \E u \in Users, id \in IdInputs : GetMemory(u, id)
    \/ \E u \in Users, id \in IdInputs, req \in UpdateRequests :
          UpdateMemory(u, id, req)
    \/ \E u \in Users, id \in IdInputs : DeleteMemory(u, id)
    \/ \E u \in Users, id \in IdInputs : ReinforceMemory(u, id)
    \/ \E u \in Users, id \in IdInputs, v \in VerifyRequests :
          VerifyMemory(u, id, v[1], v[2])
    \/ \E u \in Users, rate \in DecayRates : DecayMemories(u, rate)
    \/ \E u \in Users, batch \in Batches(Candidates) : ExtractMemories(u, batch)
    \/ \E u \in Users, rows \in Batches(ImportRows), m \in MergeStrategies :
          ImportMemories(u, rows, m)
    \/ \E u \in Users, ids \in SUBSET IdInputs, text \in {<<>>, CGo} :
          /\ Cardinality(ids) \in 1..3
          /\ ConsolidateMemories(u, ids, text)
    \/ \E u \in Users, q \in Queries, n \in Limits, mi \in MinImportances :
          GetRelevantMemories(u, q, n, mi)
    \/ \E u \in Users, ids \in SUBSET IdInputs, f \in {None, "rejected"} :
          /\ Cardinality(ids) <= 2
          /\ BulkDelete(u, ids, f)

Spec == Init /\ [][Next]_vars

-----------------------------------------------------------------------------
(* properties of the memory operations *)

CapacityError == "ValueError: Memory limit exceeded (2000)"

\* C1: get_relevant_memories never returns a record whose status is rejected.
C1_RetrievalExcludesRejected ==
    last.op = "get_relevant_memories" =>
        \A k \in 1..Len(last.out) : store[last.out[k]].status # "rejected"

\* a retrieval that returned something while the user had a rejected record
\* that passes the importance filter
C1_Witness ==
    /\ last.op = "get_relevant_memories"
    /\ last.out # <<>>
    /\ \E i \in OwnedBy(last.user) :
          store[i].status = "rejected" /\ store[i].importance >= 30

\* C2: create_memory, called without skip_limit_check by a user who holds
\* 2,000 or more records, fails with the capacity error and inserts nothing:
\* the user's count is unchanged.
C2_CreateRefusedAtCapacity ==
    [][(/\ last'.op = "create_memory"
        /\ last'.act # "skip_limit_check"
        /\ count_documents(last'.user) >= HardLimit)
       => (/\ ~last'.ok
           /\ last'.err = CapacityError
           /\ store' = store
           /\ legacy' = legacy)]_vars

\* a create_memory refused for capacity by a user holding exactly 2,000
C2_Witness ==
    /\ last.op = "create_memory"
    /\ last.err = CapacityError
    /\ count_documents(last.user) = HardLimit
    /\ OwnedBy(last.user) # {}

\* C3 (as stated): no operation raises the count of a user who already holds
\* 2,000 or more records; extraction, import and consolidation refuse to insert.
C3_NoInsertAtCapacity ==
    [][\A u \in Users :
          count_documents(u) >= HardLimit =>
              Cardinality(OwnedIn(store', u)) + legacy'[u] <= count_documents(u)]_vars

\* C4: a successful verify_memory sets, by action and whatever the status
\* before: confirm -> confirmed, confidence 1.0, relevance_score raised by 0.2
\* and capped at 1.0; reject -> rejected, confidence 0.0, relevance_score 0.0;
\* correct -> corrected, content replaced by the corrected content,
\* confidence 0.9.
C4_VerifyActionEffects ==
    [][(last'.op = "verify_memory" /\ last'.ok) =>
        LET old == store[last'.id]
            new == store'[last'.id]
        IN CASE last'.act = "confirm" ->
                  /\ new.status = "confirmed"
                  /\ new.confidence = 100
                  /\ new.relevance_score = Min(old.relevance_score + 20, 100)
             [] last'.act = "reject" ->
                  /\ new.status = "rejected"
                  /\ new.confidence = 0
                  /\ new.relevance_score = 0
             [] last'.act = "correct" ->
                  /\ new.status = "corrected"
                  /\ new.content = last'.text
                  /\ new.confidence = 90
             [] OTHER -> FALSE]_vars

\* a successful confirm of a record that was rejected by the verification before
C4_Witness ==
    /\ last.op = "verify_memory"
    /\ last.ok
    /\ last.act = "confirm"
    /\ LET h == store[last.id].verification_history
       IN Len(h) >= 2 /\ h[Len(h) - 1].action = "reject"

\* C5 (as stated): the stored embedding of every record is the embedding
\* generated from its stored content, after update, correction and import alike.
C5_EmbeddingFollowsContent ==
    \A i \in Stored : store[i].embedding = generate_embedding(store[i].content)

\* C6: a confirm that directly follows a successful confirm of the same record
\* reports no error and leaves the record as the first confirm left it in
\* status (confirmed), confidence (1.0), content and embedding.
C6_RepeatedConfirm ==
    [][(/\ last.op = "verify_memory" /\ last.ok /\ last.act = "confirm"
        /\ last'.op = "verify_memory" /\ last'.act = "confirm"
        /\ last'.id = last.id /\ last'.user = last.user)
       => (/\ last'.ok
           /\ last'.err = None
           /\ store[last.id].status = "confirmed"
           /\ store[last.id].confidence = 100
           /\ store'[last.id].status = "confirmed"
           /\ store'[last.id].confidence = 100
           /\ store'[last.id].content = store[last.id].content
           /\ store'[last.id].embedding = store[last.id].embedding)]_vars

\* a successful confirm of a record whose preceding verification was a confirm
C6_Witness ==
    /\ last.op = "verify_memory"
    /\ last.ok
    /\ last.act = "confirm"
    /\ LET h == store[last.id].verification_history
       IN Len(h) >= 2 /\ h[Len(h) - 1].action = "confirm"

IsPrefix(a, b) == Len(a) <= Len(b) /\ SubSeq(b, 1, Len(a)) = a

\* C7: the verification history of a record only grows: no step removes or
\* rewrites an entry, and every successful verify_memory appends exactly one
\* entry and stamps verified_at and updated_at with the time of the call.
C7_HistoryAppendOnly ==
    [][/\ \A i \in Stored \cap DOMAIN store' :
             IsPrefix(store[i].verification_history,
                      store'[i].verification_history)
       /\ (last'.op = "verify_memory" /\ last'.ok) =>
             LET old == store[last'.id]
                 new == store'[last'.id]
             IN /\ Len(new.verification_history) = Len(old.verification_history) + 1
                /\ new.verification_history[Len(new.verification_history)].action
                      = last'.act
                /\ new.verified_at = now'
                /\ new.updated_at = now']_vars

\* a successful verification of a record that had been verified before
C7_Witness ==
    /\ last.op = "verify_memory"
    /\ last.ok
    /\ Len(store[last.id].verification_history) >= 2
    /\ store[last.id].verified_at = now

\* C8: verify_memory with an action outside confirm / reject / correct, or
\* with correct and no corrected content, returns failure and leaves the
\* record's status, content, embedding, confidence, relevance_score,
\* verified_at and verification history as they were.
C8_InvalidVerifyChangesNothing ==
    [][(/\ last'.op = "verify_memory"
        /\ \/ last'.act \notin {"confirm", "reject", "correct"}
           \/ last'.act = "correct" /\ last'.text = <<>>)
       => (/\ ~last'.ok
           /\ DOMAIN store' = Stored
           /\ \A i \in Stored :
                 /\ store'[i].status = store[i].status
                 /\ store'[i].content = store[i].content
                 /\ store'[i].embedding = store[i].embedding
                 /\ store'[i].confidence = store[i].confidence
                 /\ store'[i].relevance_score = store[i].relevance_score
                 /\ store'[i].verified_at = store[i].verified_at
                 /\ store'[i].verification_history
                       = store[i].verification_history)]_vars

\* a refused verification of a record the caller owns
C8_Witness ==
    /\ last.op = "verify_memory"
    /\ ~last.ok
    /\ last.err = "invalid"
    /\ last.act = "approve"
    /\ Found(last.user, last.id)

\* C9: a successful consolidate_memories inserts one new record and leaves
\* every input record of the caller in the store, with superseded_by set to
\* the new record's id and relevance_score 0.1.
C9_ConsolidationSupersedesInputs ==
    [][(last'.op = "consolidate_memories" /\ last'.ok) =>
        /\ last'.id \notin Stored
        /\ DOMAIN store' = Stored \cup {last'.id}
        /\ Cardinality({i \in last'.ids : Found(last'.user, i)}) >= 2
        /\ \A i \in last'.ids :
              Found(last'.user, i) =>
                  /\ store'[i].superseded_by = last'.id
                  /\ store'[i].relevance_score = 10
                  /\ store'[i].content = store[i].content]_vars

\* a successful consolidation of records that were at full relevance
C9_Witness ==
    /\ last.op = "consolidate_memories"
    /\ last.ok
    /\ Cardinality(last.ids) >= 2
    /\ last.id \in Stored
    /\ \A i \in last.ids : i \in Stored /\ store[i].superseded_by = last.id

\* C11: an extraction never inserts a candidate whose embedding is at least
\* 0.90 similar to a record of the same user created within the last 7 days;
\* a record that duplicates the candidate (one of those, or one with the same
\* content) is reinforced instead.  The duplicate test is per user, not per
\* session.
C11_ExtractionDeduplicates ==
    [][last'.op = "extract_memories" =>
        \A k \in 1..Len(last'.batch) :
          LET cand == last'.batch[k]
              u == last'.user
              exact == {j \in OwnedBy(u) : store[j].content = cand.content}
              similar == {j \in OwnedBy(u) :
                            /\ store[j].created_at >= now - DedupDays
                            /\ store[j].embedding # <<>>
                            /\ cosine_similarity(generate_embedding(cand.content),
                                                 store[j].embedding) >= 90}
          IN similar # {} =>
               /\ \A i \in DOMAIN store' \ Stored :
                     store'[i].content # cand.content
               /\ \E j \in similar \cup exact :
                     /\ j \in DOMAIN store'
                     /\ store'[j].relevance_score
                          >= Min(store[j].relevance_score + 10, 100)
                     /\ store'[j].updated_at = now]_vars

\* an extraction that inserted nothing because its one candidate, of a
\* content not in the store, was similar to a recent record, which it
\* reinforced from relevance 0.0 to 0.1
C11_Witness ==
    /\ last.op = "extract_memories"
    /\ Len(last.batch) = 1
    /\ last.out = <<>>
    /\ \A i \in OwnedBy(last.user) : store[i].content # last.batch[1].content
    /\ \E i \in OwnedBy(last.user) :
          /\ store[i].relevance_score = 10
          /\ cosine_similarity(generate_embedding(last.batch[1].content),
                               store[i].embedding) >= 90

\* C12 (as stated): create_memory with non-empty content, for a user below
\* the limit, succeeds and inserts one record holding the content, the
\* embedding generated from it and access_count 0 (the record a following
\* get_relevant_memories with limit 1 is to return and count as accessed).
C12_CreateInsertsRecord ==
    [][(/\ last'.op = "create_memory"
        /\ last'.text # <<>>
        /\ count_documents(last'.user) < HardLimit)
       => (/\ last'.ok
           /\ \E i \in DOMAIN store' \ Stored :
                 /\ store'[i].user_id = last'.user
                 /\ store'[i].content = last'.text
                 /\ store'[i].embedding = generate_embedding(last'.text)
                 /\ store'[i].access_count = 0)]_vars

\* C13 (as stated): in every reachable state each record's relevance_score,
\* importance and confidence lie in [0,1].
C13_ScoresInUnitRange ==
    \A i \in Stored :
        /\ store[i].relevance_score >= 0 /\ store[i].relevance_score <= 100
        /\ store[i].importance >= 0 /\ store[i].importance <= 100
        /\ store[i].confidence >= 0 /\ store[i].confidence <= 100

\* C14 (as stated): link_memories deduplicates on (target_id, type): no
\* record holds two relationships with the same target and the same type,
\* however often the same link was requested.
C14_LinkDeduplicates ==
    \A i \in Stored :
        \A j, k \in 1..Len(store[i].relationships) :
            (/\ store[i].relationships[j].memory_id = store[i].relationships[k].memory_id
             /\ store[i].relationships[j].type = store[i].relationships[k].type)
            => j = k

\* the reverse-type mapping: contradicts, relates_to and similar_to are their
\* own reverse, supersedes <-> superseded_by, part_of <-> contains
ReverseOf(type) ==
    CASE type = "supersedes"    -> "superseded_by"
      [] type = "superseded_by" -> "supersedes"
      [] type = "part_of"       -> "contains"
      [] type = "contains"      -> "part_of"
      [] OTHER                  -> type

HasEdge(st, holder, other, type) ==
    \E k \in 1..Len(st[holder].relationships) :
        /\ st[holder].relationships[k].memory_id = other
        /\ st[holder].relationships[k].type = type

NotOwn(u, id) == id \notin Stored \/ store[id].user_id # u

IdOps == {"get_memory", "update_memory", "delete_memory", "verify_memory",
          "reinforce_memory"}

\* C16: for get, update, delete, verify, reinforce, link and bulk delete, an
\* id that belongs to another user is treated as an id that does not exist:
\* the call returns the one failure result that depends on nothing but the
\* operation, the store is left as it was, and in every such call each record
\* of a user other than the caller stays in the store unchanged.
C16_ForeignIdLikeMissingId ==
    [][ LET u == last'.user
        IN /\ last'.op \in IdOps \cup {"link_memories", "bulk_delete"} =>
                \A i \in Stored :
                   store[i].user_id # u =>
                      i \in DOMAIN store' /\ store'[i] = store[i]
           /\ (last'.op \in IdOps /\ NotOwn(u, last'.id)) =>
                /\ ~last'.ok
                /\ last'.out = <<>>
                /\ last'.err = IF last'.op = "verify_memory"
                               THEN "not found" ELSE None
                /\ store' = store
           /\ (/\ last'.op = "link_memories"
               /\ \/ NotOwn(u, last'.id)
                  \/ \E t \in last'.ids : NotOwn(u, t)) =>
                /\ ~last'.ok
                /\ last'.out = <<>>
                /\ last'.err = None
                /\ store' = store
           /\ last'.op = "bulk_delete" =>
                /\ Range(last'.out) =
                      {i \in Stored :
                         /\ store[i].user_id = u
                         /\ last'.ids # {} => i \in last'.ids
                         /\ last'.act # None => store[i].status = last'.act}
                /\ DOMAIN store' = Stored \ Range(last'.out)
      ]_vars

\* a call just failed on an id that is in the store under another user
C16_Witness ==
    /\ last.op \in IdOps \cup {"link_memories"}
    /\ ~last.ok
    /\ last.id \in Stored
    /\ store[last.id].user_id # last.user

\* the contradiction table of the specification, on whole words
AntonymPairs ==
    { << {"prefer", "prefers"},
         {"dislike", "dislikes", "hate", "hates", "avoid", "avoids"} >>,
      << {"like", "likes"}, {"dislike", "dislikes", "hate", "hates"} >>,
      << {"yes"}, {"no"} >>,
      << {"true"}, {"false"} >>,
      << {"always"}, {"never"} >> }

MatchesAntonymPair(t1, t2) ==
    LET w1 == Range(LowerText(t1))
        w2 == Range(LowerText(t2))
    IN \E pair \in AntonymPairs :
          \/ w1 \cap pair[1] # {} /\ w2 \cap pair[2] # {}
          \/ w1 \cap pair[2] # {} /\ w2 \cap pair[1] # {}

\* C17: a detect_conflicts run over a user's memories flags every two
\* non-rejected memories of that user whose similarity is in [0.70, 0.85) and
\* whose texts match an antonym pair in either direction ("Prefers Python for
\* backend" and "Dislikes Python for backend"): conflict_detected is true on
\* both, each one's id is in the other's conflict_ids, and the content of both
\* is as it was.
C17_AntonymsFlagged ==
    [][ (last'.op = "detect_conflicts" /\ last'.id = NoId) =>
          \A a \in OwnedBy(last'.user), b \in OwnedBy(last'.user) :
             ( /\ a # b
               /\ store[a].status # "rejected" /\ store[b].status # "rejected"
               /\ store[a].embedding # <<>> /\ store[b].embedding # <<>>
               /\ ConflictBand(cosine_similarity(store[a].embedding,
                                                 store[b].embedding))
               /\ MatchesAntonymPair(store[a].content, store[b].content) )
             => /\ a \in DOMAIN store' /\ b \in DOMAIN store'
                /\ store'[a].conflict_detected /\ store'[b].conflict_detected
                /\ b \in Range(store'[a].conflict_ids)
                /\ a \in Range(store'[b].conflict_ids)
                /\ store'[a].content = store[a].content
                /\ store'[b].content = store[b].content
      ]_vars

\* C18: a record leaves the store only in a delete or a bulk delete: no other
\* operation and no maintenance job (rejection, consolidation, decay, conflict
\* detection, expiration classification, cleanup) removes one.
C18_DestroyedOnlyByDelete ==
    [][ (\E i \in Stored : i \notin DOMAIN store') =>
          last'.op \in {"delete_memory", "bulk_delete"} ]_vars

\* a record without its timestamps
NoStamps(mem) ==
    [mem EXCEPT !.updated_at = Never, !.last_conflict_check = Never,
                !.expires_at = Never, !.last_accessed = Never,
                !.verified_at = Never, !.created_at = Never]

MaintenanceJobs == {"decay_memories", "detect_conflicts", "classify_expiration_type"}

\* C19: each maintenance job is idempotent: a second run of decay, conflict
\* detection or expiration classification for the same user, with no operation
\* in between, leaves every record's fields other than timestamps as they
\* were after the first run.
C19_MaintenanceIdempotent ==
    [][ ( /\ last.op \in MaintenanceJobs
          /\ last'.op = last.op
          /\ last'.user = last.user
          /\ last'.id = last.id )
        => /\ DOMAIN store' = Stored
           /\ \A i \in Stored : NoStamps(store'[i]) = NoStamps(store[i])
      ]_vars

\* what a verify action sets, as the specification states it
VerifyStatus(action) ==
    CASE action = "confirm" -> "confirmed"
      [] action = "reject"  -> "rejected"
      [] OTHER              -> "corrected"
VerifyConfidence(action) ==
    CASE action = "confirm" -> 100
      [] action = "reject"  -> 0
      [] OTHER              -> 90
VerifyRelevance(r, action) ==
    CASE action = "confirm" -> Min(r + 20, 100)
      [] action = "reject"  -> 0
      [] OTHER              -> r

\* between the read and the write of a verify call nothing but its own access
\* tracking and decay passes have changed the record
OnlyDecayBetween(cur, read) ==
    /\ [cur EXCEPT !.access_count = 0, !.last_accessed = Never,
                   !.updated_at = Never, !.relevance_score = 0]
         = [read EXCEPT !.access_count = 0, !.last_accessed = Never,
                        !.updated_at = Never, !.relevance_score = 0]
    /\ cur.relevance_score <= read.relevance_score
    /\ (read.relevance_score - cur.relevance_score) % DefaultDecayRate = 0

\* C20: however a verify action and a decay pass on the same record
\* interleave, the record the verify call leaves is not corrupted: status and
\* confidence are the pair the action sets, relevance_score is within [0, 1]
\* and is the value of one of the serial orders or of only one of the two
\* changes, and verification_history ends with the entry of this action.
C20_VerifyDecayNotCorrupted ==
    [][ ( /\ call.pc = "verify_write" /\ call'.pc = "idle"
          /\ call.id \in Stored
          /\ store[call.id].user_id = call.user
          /\ OnlyDecayBetween(store[call.id], call.read[1]) )
        => LET read == call.read[1]
               cur == store[call.id]
               new == store'[call.id]
               r == read.relevance_score
               decayed == cur.relevance_score
           IN /\ last'.op = "verify_memory" /\ last'.ok
              /\ new.status = VerifyStatus(call.act)
              /\ new.confidence = VerifyConfidence(call.act)
              /\ new.relevance_score >= 0 /\ new.relevance_score <= 100
              /\ new.relevance_score \in
                   IF decayed # r
                   THEN {VerifyRelevance(r, call.act),
                         VerifyRelevance(decayed, call.act),
                         decayed}
                   ELSE {VerifyRelevance(r, call.act)}
              /\ Len(new.verification_history) = Len(cur.verification_history) + 1
              /\ IsPrefix(cur.verification_history, new.verification_history)
              /\ new.verification_history[Len(new.verification_history)].action
                   = call.act
      ]_vars

\* a confirm has returned with the relevance computed from the value it read
\* (0.50 + 0.20) although the decay pass ran during the call: the other
\* record of the user carries the decay
C20_Witness ==
    /\ last.op = "verify_memory" /\ last.ok /\ last.act = "confirm"
    /\ steps = 2 /\ now = 0
    /\ 1 \in Stored /\ 2 \in Stored
    /\ store[1].status = "confirmed"
    /\ store[1].relevance_score = 70
    /\ store[2].relevance_score = 49

\* the records of user u that were there before a batch, with an embedding,
\* whose similarity to the new record n is at least `low` and below `high`
Comparable(u, n, low, high) ==
    {e \in OwnedBy(u) :
       /\ store[e].embedding # <<>>
       /\ cosine_similarity(store'[n].embedding, store[e].embedding) >= low
       /\ cosine_similarity(store'[n].embedding, store[e].embedding) < high}

\* C21: after an extraction batch has inserted new memories for a user who
\* already has memories with embeddings, each new memory has a similar_to
\* edge to every earlier memory at similarity 0.90 or more, a relates_to edge
\* to every earlier memory at similarity in [0.75, 0.90), and no edge to one
\* below 0.75, as long as no more than the cap of candidates reach 0.75.
C21_AutoLinkByBand ==
    [][ (last'.op = "extract_memories" /\ last'.out # <<>>) =>
          \A n \in Range(last'.out) :
             (/\ store'[n].embedding # <<>>
              /\ Cardinality(Comparable(last'.user, n, 75, 101)) <= 5) =>
                /\ \A e \in Comparable(last'.user, n, 90, 101) :
                      HasEdge(store', n, e, "similar_to")
                /\ \A e \in Comparable(last'.user, n, 75, 90) :
                      HasEdge(store', n, e, "relates_to")
                /\ \A e \in Comparable(last'.user, n, 0, 75) :
                      \A k \in 1..Len(store'[n].relationships) :
                         store'[n].relationships[k].memory_id # e
      ]_vars

\* the records the relationships of record n point at
LinkedFrom(st, n) ==
    {st[n].relationships[k].memory_id : k \in 1..Len(st[n].relationships)}

\* C22: auto-linking gives a new memory at most 5 links, and when more than 5
\* earlier memories reach similarity 0.75 it links 5 of them, none of which
\* is less similar to the new memory than a candidate left out.
C22_AutoLinkTopFive ==
    [][ (last'.op = "extract_memories" /\ last'.out # <<>>) =>
          \A n \in Range(last'.out) :
             LET cand == Comparable(last'.user, n, 75, 101)
                 linked == LinkedFrom(store', n)
             IN /\ Len(store'[n].relationships) <= 5
                /\ (store'[n].embedding # <<>> /\ Cardinality(cand) > 5) =>
                     /\ Cardinality(linked) = 5
                     /\ linked \subseteq cand
                     /\ \A a \in linked, b \in cand \ linked :
                           cosine_similarity(store'[n].embedding, store[a].embedding)
                             >= cosine_similarity(store'[n].embedding, store[b].embedding)
      ]_vars

C24_ClassifiedNotReclassified ==
    [][ last'.op = "classify_expiration_type" =>
          \A i \in Stored :
             store[i].expiration_type # "permanent" =>
                /\ i \in DOMAIN store'
                /\ store'[i].expiration_type = store[i].expiration_type
                /\ store'[i].expires_at = store[i].expires_at
      ]_vars

\* C25: get_relevant_memories returns at most `limit` records and changes
\* the store in one way only: access_count goes up by exactly 1 and
\* last_accessed is set on exactly the records it returns; every other
\* record and every other field is as it was.
C25_RetrievalTouchesReturned ==
    [][ last'.op = "get_relevant_memories" =>
          /\ Len(last'.out) <= last'.limit
          /\ DOMAIN store' = Stored
          /\ \A i \in Stored :
                IF i \in Range(last'.out)
                THEN store'[i] = [store[i] EXCEPT !.access_count = @ + 1,
                                                  !.last_accessed = now]
                ELSE store'[i] = store[i]
      ]_vars

\* C26: get_relevant_memories orders its result by final_score descending
\* and, among equal final_scores, by created_at descending: no candidate left
\* out or placed later has a higher score than a returned one before it, nor
\* the same score and a later created_at.
C26_TieBreakMostRecent ==
    [][ (last'.op = "get_relevant_memories" /\ CanEmbed(last'.text)
         /\ last'.limit >= 0) =>
          LET context == last'.text
              cand == {i \in Stored : /\ store[i].user_id = last'.user
                                      /\ store[i].importance >= 30
                                      /\ store[i].status # "rejected"}
              Before(j, k) ==
                 \/ SemanticScore(context, store[j]) > SemanticScore(context, store[k])
                 \/ /\ SemanticScore(context, store[j]) = SemanticScore(context, store[k])
                    /\ store[j].created_at >= store[k].created_at
          IN /\ \A a \in 1..Len(last'.out), b \in 1..Len(last'.out) :
                   a < b => Before(last'.out[a], last'.out[b])
             /\ \A a \in 1..Len(last'.out), k \in cand \ Range(last'.out) :
                   Before(last'.out[a], k)
      ]_vars

\* C27: a verify_memory call that ends in failure (an invalid action, or
\* correct without corrected content) leaves the whole record unchanged,
\* access_count and last_accessed included.
C27_FailedVerifyTouchesNothing ==
    [][ (last'.op = "verify_memory" /\ ~last'.ok) => store' = store ]_vars

\* C28: once a record is rejected it keeps relevance_score 0 and confidence 0
\* until a later verify action on it: no reinforce (the one made for a
\* duplicate during extraction included), decay pass or consolidation raises
\* the relevance_score of a rejected record.
C28_RejectedStaysAtZero ==
    [][ \A i \in Stored \cap DOMAIN store' :
          (/\ store[i].status = "rejected"
           /\ store[i].relevance_score = 0
           /\ store[i].confidence = 0
           /\ ~(last'.op = "verify_memory" /\ last'.id = i))
          => /\ store'[i].relevance_score = 0
             /\ store'[i].confidence = 0
      ]_vars

\* C29: the list extract_memories_from_conversation returns is exactly the
\* set of records the call inserted; when it returns an empty list because
\* the extractor output was malformed or a step failed, no record of that
\* batch is in the store.
C29_ReturnedIsInserted ==
    [][ last'.op = "extract_memories" =>
          Range(last'.out) = DOMAIN store' \ Stored ]_vars

-----------------------------------------------------------------------------
(* properties of the relationship graph traversal *)

\* the records within `d` hops of the set S, following the relationships of
\* the records of user u that exist
RECURSIVE ReachWithin(_, _, _)
ReachWithin(u, S, d) ==
    IF d = 0 THEN S
    ELSE ReachWithin(u,
           S \cup UNION {{store[i].relationships[k].memory_id :
                            k \in 1..Len(store[i].relationships)} :
                         i \in {j \in S : Found(u, j)}},
           d - 1)

NodeIds == {g.nodes[k].id : k \in 1..Len(g.nodes)}

NodesOnce == \A j, k \in 1..Len(g.nodes) : g.nodes[j].id = g.nodes[k].id => j = k

\* C10: get_memory_graph terminates on any finite graph, with cycles and
\* duplicate queue entries, and its result holds each record of the user that
\* is reachable from the root within max_depth exactly once.
C10_GraphTerminatesVisitsOnce ==
    /\ [](NodesOnce)
    /\ [](g.pc = "done" =>
            NodeIds = {i \in ReachWithin(g.user, {g.root}, g.max_depth) :
                         Found(g.user, i)})
    /\ (g.pc = "loop") ~> (g.pc = "done")

\* a finished traversal of a graph with a cycle, in which an entry of the
\* queue was skipped because its record had been visited
C10_Witness ==
    /\ g.pc = "done"
    /\ Len(g.nodes) >= 2
    /\ \E k \in 1..Len(g.edges) : g.edges[k].target = g.root
    /\ Len(g.edges) > Len(g.nodes)

\* C30: in every result of get_memory_graph each edge's source and target
\* are both in the returned node list: no edge points at a record that is
\* missing, belongs to another user or lies beyond max_depth.
C30_EdgesBetweenNodes ==
    g.pc = "done" =>
        \A k \in 1..Len(g.edges) :
            /\ g.edges[k].source \in NodeIds
            /\ g.edges[k].target \in NodeIds

====
